---- MODULE Spec2Model ----
(***************************************************************************)
(* Model of src/sql.py: class Database, an asyncpg connection pool with    *)
(* lazy connect, the select/update wrappers (acquire, transaction, one     *)
(* statement, commit, release) and the domain statements built on them.    *)
(* Callers are asyncio tasks: a step of a caller is the code between two   *)
(* awaits.  The datastore is PostgreSQL at READ COMMITTED: a statement     *)
(* sees committed rows only, waits for a conflicting open transaction, and *)
(* its writes become visible at COMMIT.                                    *)
(***************************************************************************)
EXTENDS Integers, Sequences, FiniteSets, TLC

\* ---------------------------------------------------------------- bounds
NumCallers == 2        \* concurrent callers (asyncio tasks) sharing the Database
MaxPoolSize == 1       \* largest max_size the constructor is given
MaxTimeout == 1        \* largest timeout (in clock ticks) the constructor is given
MaxPools == 2          \* create_pool calls that may complete in one behaviour
MaxClicks == 3         \* add_button_count calls issued in one behaviour
MaxDeals == 2          \* add_new_deal calls issued in one behaviour
MaxRefresh == 1        \* update_table_products calls issued in one behaviour
MaxSnapshot == 2       \* longest product list given to update_table_products
MaxPayments == 2       \* add_payment calls issued in one behaviour

Callers == 1..NumCallers

\* the two callers that the specifications of the domain statements interleave
Clients == {c \in Callers : c <= 2}

\* the caller that refreshes the product table from the CRM feed, and the
\* caller that handles payment notifications
Refresher == 1
Cashier == 2

\* ----------------------------------------------------------------- state
VARIABLES
    pool,          \* self.pool: 0 is None, n > 0 the n-th pool object created
    poolsCreated,  \* pool objects create_pool has returned so far
    closed,        \* the pool objects close() has been called on
    max_size,      \* self.max_size
    timeout,       \* self.timeout
    pc,            \* per caller: the await it is suspended at ("idle": in no call)
    stmt,          \* per caller: the statement of the select/update call in progress
    from,          \* per caller: the pool object its acquire() was issued on (0: none)
    held,          \* per caller: the pool whose connection it has checked out (0: none)
    pend,          \* per caller: the writes of the transaction of its call
    result,        \* per caller: rows returned by its last select
    outcome,       \* per caller: how the call in progress is ending
    waited,        \* per caller: ticks spent waiting on an exhausted pool
    prog,          \* per caller: the multi-statement method it is running
    users,         \* table users (committed rows)
    buttons_stat,  \* table buttons_stat (committed rows)
    products,      \* table products (committed rows)
    deals,         \* table deals (committed rows)
    admin_messages,\* table admin_messages (committed rows)
    payments,      \* table payments (committed rows)
    deals_seq,     \* the SERIAL sequence of deals.id
    hist           \* history of issued and committed calls (not program state):
                   \*   usersCommitted  user ids whose add_new_user committed
                   \*   clicks          committed add_button_count calls per key
                   \*   settled         ids of the deal rows a committed set_paid_deal covered
                   \*   paidDeals       deal_ids whose set_paid_deal committed
                   \*   failedExit      a call released its connection after a failure
                   \*   tornDown        an __aexit__ has returned
                   \*   loaded, clean   the list of the last completed refresh, and
                   \*                   whether no other refresh ran during it
                   \*   greeting        text of the last committed set_start_message
                   \*   notified        the notifications whose add_payment committed
                   \*   ...Issued       calls issued so far (the bounds of the model)

vars == <<pool, poolsCreated, closed, max_size, timeout, pc, stmt, from, held, pend,
          result, outcome, waited, prog, users, buttons_stat, products, deals,
          admin_messages, payments, deals_seq, hist>>

poolVars == <<pool, poolsCreated, closed, max_size, timeout>>
tableVars == <<users, buttons_stat, products, deals, admin_messages, payments>>

\* ------------------------------------------------------------ statements
\* A statement is the query text of one Database method with its arguments.
NoStmt == [kind |-> "none"]
NoPend == [ins |-> <<>>, upd |-> {}, trunc |-> FALSE]
NoProg == [op |-> "none"]

SeqToSet(s) == {s[i] : i \in DOMAIN s}

\* ---------------------------------------------------------------- inputs
UserIds == {42, 43}
ButtonNames == {"start"}
DealIds == {900, 901}
ProductIds == {7}
PaidIds == {900}            \* the deals that payments are confirmed for
Buyers == {42}              \* the users that register and that deals are recorded for
Greetings == {"hello", "welcome"}   \* texts given to set_start_message

\* A product dictionary of the CRM client, with the keys update_table_products
\* reads.  A timestamp "2024-01-01T10:00:00+03:00" is kept as the pair of the
\* text before the first '+' and the text after it.
Catalog ==
    { [id |-> 7, name |-> "yoga", dateActiveFrom |-> <<"2024-01-01T10:00:00", "03:00">>,
       dateActiveTo |-> <<"2024-02-01T10:00:00", "03:00">>, PRICE |-> 15000,
       CURRENCY_ID |-> "PLN", detailText |-> "d"],
      \* PRICE is a decimal text, kept in hundredths: "150.00" above, "99.99" here
      [id |-> 8, name |-> "pilates", dateActiveFrom |-> <<"2024-01-01T10:00:00", "03:00">>,
       dateActiveTo |-> <<"2024-02-01T10:00:00", "03:00">>, PRICE |-> 9999,
       CURRENCY_ID |-> "PLN", detailText |-> "d"] }

RECURSIVE SeqsUpTo(_, _)
\* the sequences over S of length at most n
SeqsUpTo(S, n) ==
    IF n = 0 THEN {<<>>}
    ELSE LET shorter == SeqsUpTo(S, n - 1)
         IN  shorter \cup {Append(s, x) : s \in shorter, x \in S}

Snapshots == SeqsUpTo(Catalog, MaxSnapshot)

\* the timestamp texts (before the '+') that match '%Y-%m-%dT%H:%M:%S'
Timestamps == {"2024-01-01T10:00:00", "2024-02-01T10:00:00"}

\* a PRICE text that is not a number, such as "n/a"
NotANumber == 0 - 1

\* Product dictionaries as the CRM may deliver them: a well-formed one, one
\* whose dateActiveTo is not a timestamp and one whose PRICE is not a number.
Feed ==
    { [id |-> 7, name |-> "yoga", dateActiveFrom |-> <<"2024-01-01T10:00:00", "03:00">>,
       dateActiveTo |-> <<"2024-02-01T10:00:00", "03:00">>, PRICE |-> 15000,
       CURRENCY_ID |-> "PLN", detailText |-> "d"],
      [id |-> 9, name |-> "tai chi", dateActiveFrom |-> <<"2024-01-01T10:00:00", "03:00">>,
       dateActiveTo |-> <<"never", "">>, PRICE |-> 15000,
       CURRENCY_ID |-> "PLN", detailText |-> "d"],
      [id |-> 10, name |-> "barre", dateActiveFrom |-> <<"2024-01-01T10:00:00", "03:00">>,
       dateActiveTo |-> <<"2024-02-01T10:00:00", "03:00">>, PRICE |-> NotANumber,
       CURRENCY_ID |-> "PLN", detailText |-> "d"] }

FeedLists == SeqsUpTo(Feed, MaxSnapshot)

\* One part of invoice_payload.split(':'): a decimal number or another text.
Num(n) == [num |-> TRUE, val |-> n]
Text == [num |-> FALSE, val |-> 0]

\* invoice_payload.split(':') of "7:900", "8:901", "7", "x:900" and "7:x"
Payloads ==
    {<<Num(7), Num(900)>>, <<Num(8), Num(901)>>, <<Num(7)>>, <<Text, Num(900)>>,
     <<Num(7), Text>>}

\* SuccessfulPayment records of the messaging platform
Notifications ==
    {[currency |-> "PLN", total_amount |-> 15000, invoice_payload |-> parts,
      telegram_payment_charge_id |-> "tg-1", provider_payment_charge_id |-> "pr-1"] :
        parts \in Payloads}

\* ------------------------------------------------------ column type REAL
\* A REAL column holds an IEEE single: 24 significant bits.  A stored value
\* is <<m, k>>, meaning m / 2^k; a decimal input is given in hundredths.
RECURSIVE Normalize(_, _)
\* scale n = cents * 2^k up until n / 100 has 24 significant bits
Normalize(n, k) ==
    IF n < 100 * 8388608 THEN Normalize(2 * n, k + 1) ELSE <<n, k>>

\* float(text) passed as a REAL parameter: round to nearest, ties to even
ToReal(cents) ==
    LET nk == Normalize(cents, 0)
        q == nk[1] \div 100
        r == nk[1] % 100
        m == IF r > 50 \/ (r = 50 /\ q % 2 = 1) THEN q + 1 ELSE q
    IN  <<m, nk[2]>>

\* whether the stored REAL equals the decimal number cents / 100
RealEqualsDecimal(real, cents) == real[1] * 100 = cents * (2 ^ real[2])

\* str.split('+')[0] of a timestamp text, then strptime
ParseTimestamp(text) == text[1]

\* strptime raises ValueError on a text that does not match the format
TimestampError(text) == text[1] \notin Timestamps

\* float(text) raises ValueError on a text that is not a number
PriceError(price) == price = NotANumber

\* the loop body of update_table_products raises before its INSERT is issued
Malformed(product) ==
    \/ TimestampError(product.dateActiveFrom)
    \/ TimestampError(product.dateActiveTo)
    \/ PriceError(product.PRICE)

\* int(payload.split(':')[0]) and int(payload.split(':')[1]) in add_payment:
\* the exception they raise, or "none"
PayloadError(parts) ==
    IF ~parts[1].num THEN "ValueError"
    ELSE IF Len(parts) < 2 THEN "IndexError"
    ELSE IF ~parts[2].num THEN "ValueError"
    ELSE "none"

\* ---------------------------------------------------------------- reads
\* the query without its WHERE clause
is_user_exist_all_rows(s) == users

\* SELECT * FROM users WHERE user_id = $1
is_user_exist_rows(s) == SelectSeq(users, LAMBDA r : r.user_id = s.user_id)

\* bool(rows)
is_user_exist_result(rows) == rows # <<>>

\* SELECT * FROM products
get_products_rows(s) == products

\* SELECT * FROM products WHERE id = $1
get_product_by_id_rows(s) == SelectSeq(products, LAMBDA r : r.id = s.product_id)

\* the query without "AND paid = FALSE"
get_user_deal_by_product_id_any_paid(s) ==
    SelectSeq(deals, LAMBDA r : r.user_id = s.user_id /\ r.product_id = s.product_id)

\* SELECT * FROM deals WHERE user_id = $1 AND product_id = $2 AND paid = FALSE
get_user_deal_by_product_id_rows(s) ==
    SelectSeq(deals, LAMBDA r : r.user_id = s.user_id /\ r.product_id = s.product_id
                                /\ r.paid = FALSE)

\* SELECT start_message FROM admin_messages
get_start_message_rows(s) ==
    [i \in DOMAIN admin_messages |->
        [start_message |-> admin_messages[i].start_message]]

\* result[0].get('start_message'): indexing an empty result raises IndexError
get_start_message_result(rows) ==
    IF rows = <<>> THEN "IndexError" ELSE rows[1].start_message

IsSelect(s) ==
    s.kind \in {"is_user_exist", "get_products", "get_product_by_id",
                "get_user_deal_by_product_id", "get_start_message"}

\* conn.fetch(query, *args): the rows the statement returns
Fetch(s) ==
    CASE s.kind = "is_user_exist" -> is_user_exist_rows(s)
      [] s.kind = "get_products" -> get_products_rows(s)
      [] s.kind = "get_product_by_id" -> get_product_by_id_rows(s)
      [] s.kind = "get_user_deal_by_product_id" -> get_user_deal_by_product_id_rows(s)
      [] s.kind = "get_start_message" -> get_start_message_rows(s)
      [] OTHER -> <<>>

\* --------------------------------------------------------------- writes
\* Each write statement yields the writes of its transaction: rows to
\* append, rows to replace (by position), or a truncation.

\* INSERT INTO users (user_id, username, full_name) VALUES ($1, $2, $3)
add_new_user_writes(s) ==
    [NoPend EXCEPT !.ins = <<[user_id |-> s.user_id, username |-> s.username,
                              full_name |-> s.full_name]>>]

\* the upsert written with ON CONFLICT DO NOTHING
add_button_count_do_nothing(s) ==
    IF \E i \in DOMAIN buttons_stat :
           /\ buttons_stat[i].user_id = s.user_id
           /\ buttons_stat[i].button_name = s.button_name
    THEN NoPend
    ELSE [NoPend EXCEPT !.ins = <<[user_id |-> s.user_id,
                                   button_name |-> s.button_name, count |-> 1]>>]

\* INSERT INTO buttons_stat ... VALUES ($1, $2, 1) ON CONFLICT (user_id, button_name)
\* DO UPDATE SET count = buttons_stat.count + 1 WHERE ...
add_button_count_writes(s) ==
    LET hit == {i \in DOMAIN buttons_stat :
                    /\ buttons_stat[i].user_id = s.user_id
                    /\ buttons_stat[i].button_name = s.button_name}
    IN  IF hit = {}
        THEN [NoPend EXCEPT !.ins = <<[user_id |-> s.user_id,
                                       button_name |-> s.button_name, count |-> 1]>>]
        ELSE [NoPend EXCEPT !.upd =
                 {<<i, [buttons_stat[i] EXCEPT !.count = @ + 1]>> : i \in hit}]

\* the INSERT written as an upsert on deal_id: an existing row of that deal_id
\* is overwritten with the new values
add_new_deal_replace(s) ==
    LET hit == {j \in DOMAIN deals : deals[j].deal_id = s.deal_id}
        row(n) == [id |-> n, user_id |-> s.user_id, deal_id |-> s.deal_id,
                   product_id |-> s.product_id, opportunity |-> ToReal(s.opportunity),
                   paid |-> FALSE, create_time |-> s.create_time]
    IN  IF hit = {} THEN [NoPend EXCEPT !.ins = <<row(deals_seq + 1)>>]
        ELSE [NoPend EXCEPT !.upd = {<<i, row(deals[i].id)>> : i \in hit}]

\* INSERT INTO deals (user_id, deal_id, product_id, opportunity, create_time) ...
\* id comes from the SERIAL sequence, paid from DEFAULT FALSE
add_new_deal_writes(s) ==
    [NoPend EXCEPT !.ins = <<[id |-> deals_seq + 1, user_id |-> s.user_id,
                              deal_id |-> s.deal_id, product_id |-> s.product_id,
                              opportunity |-> ToReal(s.opportunity), paid |-> FALSE,
                              create_time |-> s.create_time]>>]

\* an UPDATE that flips the flag: SET paid = NOT paid
set_paid_deal_toggle(s) ==
    [NoPend EXCEPT !.upd = {<<i, [deals[i] EXCEPT !.paid = ~@]>> :
                               i \in {j \in DOMAIN deals : deals[j].deal_id = s.deal_id}}]

\* UPDATE deals SET paid = True WHERE deal_id = $1
set_paid_deal_writes(s) ==
    [NoPend EXCEPT !.upd = {<<i, [deals[i] EXCEPT !.paid = TRUE]>> :
                               i \in {j \in DOMAIN deals : deals[j].deal_id = s.deal_id}}]

\* a refresh that does not empty the table first
truncate_products_keep(s) == NoPend

\* TRUNCATE TABLE products
truncate_products_writes(s) == [NoPend EXCEPT !.trunc = TRUE]

\* INSERT INTO products (id, name, active_from, active_to, price, currency_id,
\* description) VALUES ($1, ..., $7)
insert_product_writes(s) == [NoPend EXCEPT !.ins = <<s.row>>]

\* the two parts of the payload read in the wrong order
add_payment_swapped(s) ==
    [NoPend EXCEPT !.ins =
        <<[user_id |-> s.user_id, currency |-> s.currency,
           total_amount |-> s.total_amount, product_id |-> s.deal_id,
           deal_id |-> s.product_id,
           telegram_payment_charge_id |-> s.telegram_payment_charge_id,
           provider_payment_charge_id |-> s.provider_payment_charge_id]>>]

\* INSERT INTO payments (user_id, currency, total_amount, product_id, deal_id,
\* telegram_payment_charge_id, provider_payment_charge_id) VALUES ($1, ..., $7)
add_payment_writes(s) ==
    [NoPend EXCEPT !.ins =
        <<[user_id |-> s.user_id, currency |-> s.currency,
           total_amount |-> s.total_amount, product_id |-> s.product_id,
           deal_id |-> s.deal_id,
           telegram_payment_charge_id |-> s.telegram_payment_charge_id,
           provider_payment_charge_id |-> s.provider_payment_charge_id]>>]

\* CREATE TABLE IF NOT EXISTS admin_messages (id SERIAL PRIMARY KEY,
\* start_message TEXT): the table is created with no row, and is left as it is
\* when it exists
create_table_admin_messages_writes(s) == NoPend

\* UPDATE admin_messages SET start_message = $1: every row of the table
set_start_message_writes(s) ==
    [NoPend EXCEPT !.upd =
        {<<i, [admin_messages[i] EXCEPT !.start_message = s.start_message]>> :
            i \in DOMAIN admin_messages}]

\* conn.execute(query, *args): the writes of the statement
Writes(s) ==
    CASE s.kind = "add_new_user" -> add_new_user_writes(s)
      [] s.kind = "add_button_count" -> add_button_count_writes(s)
      [] s.kind = "add_new_deal" -> add_new_deal_writes(s)
      [] s.kind = "set_paid_deal" -> set_paid_deal_writes(s)
      [] s.kind = "truncate_products" -> truncate_products_writes(s)
      [] s.kind = "insert_product" -> insert_product_writes(s)
      [] s.kind = "create_table_admin_messages" -> create_table_admin_messages_writes(s)
      [] s.kind = "set_start_message" -> set_start_message_writes(s)
      [] s.kind = "add_payment" -> add_payment_writes(s)
      [] OTHER -> NoPend

\* the table a statement reads or writes
TableOf(s) ==
    CASE s.kind \in {"add_new_user", "is_user_exist"} -> "users"
      [] s.kind \in {"add_button_count"} -> "buttons_stat"
      [] s.kind \in {"add_new_deal", "set_paid_deal", "get_user_deal_by_product_id"}
           -> "deals"
      [] s.kind \in {"truncate_products", "insert_product", "get_products",
                     "get_product_by_id"} -> "products"
      [] s.kind \in {"create_table_admin_messages", "set_start_message",
                     "get_start_message"} -> "admin_messages"
      [] s.kind \in {"add_payment"} -> "payments"
      [] OTHER -> "none"

\* the table created without the UNIQUE constraint
users_unique_missing(s) == FALSE

\* CONSTRAINT uk_users_user_id UNIQUE on users.user_id
users_unique_violation(s) ==
    s.kind = "add_new_user" /\ \E i \in DOMAIN users : users[i].user_id = s.user_id

\* id INT PRIMARY KEY on products.id
products_unique_violation(s) ==
    s.kind = "insert_product" /\ \E i \in DOMAIN products : products[i].id = s.row.id

\* the statement raises a constraint violation against the committed rows
StatementError(s) == users_unique_violation(s) \/ products_unique_violation(s)

\* Statement s has to wait for the open transaction that executed t: both
\* write the same unique key or the same row, or one of them is a TRUNCATE
\* (ACCESS EXCLUSIVE) of the table the other uses.
LockConflict(s, t) ==
    \/ s.kind = "add_new_user" /\ t.kind = "add_new_user" /\ s.user_id = t.user_id
    \/ /\ s.kind = "add_button_count" /\ t.kind = "add_button_count"
       /\ s.user_id = t.user_id /\ s.button_name = t.button_name
    \/ s.kind = "set_paid_deal" /\ t.kind = "set_paid_deal" /\ s.deal_id = t.deal_id
    \/ s.kind = "insert_product" /\ t.kind = "insert_product" /\ s.row.id = t.row.id
    \/ /\ s.kind = "set_start_message" /\ t.kind = "set_start_message"
       /\ admin_messages # <<>>
    \/ /\ TableOf(s) = "products" /\ TableOf(t) = "products"
       /\ "truncate_products" \in {s.kind, t.kind}

\* the table after a transaction's writes are committed
ApplyWrites(t, p) ==
    LET kept == IF p.trunc THEN <<>>
                ELSE [i \in DOMAIN t |->
                        IF \E u \in p.upd : u[1] = i
                        THEN (CHOOSE u \in p.upd : u[1] = i)[2]
                        ELSE t[i]]
    IN  kept \o p.ins

\* ------------------------------------------------------- pool and calls
\* connections of pool p that are checked out
InUse(p) == Cardinality({c \in Callers : held[c] = p})

Exhausted(p) == p # 0 /\ InUse(p) >= max_size

\* a select/update that connects on every call
PoolIsNone_always(p) == TRUE

\* "if self.pool is None" at the head of select and update
PoolIsNone(p) == p = 0

\* a release that is skipped when the block is left by an exception
ReleaseConn_on_success(h, c, how) == IF how = "ok" THEN [h EXCEPT ![c] = 0] ELSE h

\* leaving "async with self.pool.acquire() as conn": the connection goes back
\* to its pool, however the block was left (how: the outcome of the call)
ReleaseConn(h, c, how) == [h EXCEPT ![c] = 0]

\* the waiters on pool p see it no longer exhausted
ResetWaits(p) ==
    [c \in Callers |-> IF pc[c] = "acquire" /\ from[c] = p THEN 0 ELSE waited[c]]

\* select/update is entered with statement s: the pool check, then either
\* "await self.connect()" or "self.pool.acquire()" on the pool that is set
Enter(c, s) ==
    /\ stmt' = [stmt EXCEPT ![c] = s]
    /\ result' = [result EXCEPT ![c] = <<>>]
    /\ outcome' = [outcome EXCEPT ![c] = "running"]
    /\ pend' = [pend EXCEPT ![c] = NoPend]
    /\ IF PoolIsNone(pool)
       THEN pc' = [pc EXCEPT ![c] = "connect"] /\ from' = [from EXCEPT ![c] = 0]
       ELSE pc' = [pc EXCEPT ![c] = "acquire"] /\ from' = [from EXCEPT ![c] = pool]

\* a caller in no call issues a single-statement method
Call(c, s) ==
    /\ pc[c] = "idle"
    /\ Enter(c, s)
    /\ UNCHANGED <<poolVars, held, waited, prog, tableVars, deals_seq>>

\* Database.connect, called directly
connect(c) ==
    /\ pc[c] = "idle"
    /\ poolsCreated + Cardinality({d \in Callers : pc[d] = "connect"}) < MaxPools
    /\ pc' = [pc EXCEPT ![c] = "connect"]
    /\ stmt' = [stmt EXCEPT ![c] = [kind |-> "connect"]]
    /\ result' = [result EXCEPT ![c] = <<>>]
    /\ outcome' = [outcome EXCEPT ![c] = "running"]
    /\ UNCHANGED <<poolVars, from, held, pend, waited, prog, tableVars, deals_seq, hist>>

\* create_pool returns: self.pool is assigned; a select/update that awaited
\* connect goes on to self.pool.acquire()
ConnectDone(c) ==
    /\ pc[c] = "connect"
    /\ poolsCreated' = poolsCreated + 1
    /\ pool' = poolsCreated + 1
    /\ IF stmt[c].kind = "connect"
       THEN /\ pc' = [pc EXCEPT ![c] = "idle"]
            /\ outcome' = [outcome EXCEPT ![c] = "none"]
            /\ stmt' = [stmt EXCEPT ![c] = NoStmt]
            /\ from' = from
       ELSE /\ pc' = [pc EXCEPT ![c] = "acquire"]
            /\ UNCHANGED <<outcome, stmt>>
            /\ from' = [from EXCEPT ![c] = pool']
    /\ UNCHANGED <<closed, max_size, timeout, held, pend, result, waited, prog,
                   tableVars, deals_seq, hist>>

\* the call ends with an exception raised while it holds no connection
Raise(c, how) ==
    /\ pc' = [pc EXCEPT ![c] = "idle"]
    /\ outcome' = [outcome EXCEPT ![c] = "none"]
    /\ stmt' = [stmt EXCEPT ![c] = NoStmt]
    /\ from' = [from EXCEPT ![c] = 0]
    /\ prog' = [prog EXCEPT ![c] = NoProg]

\* create_pool raises (the datastore cannot be reached): self.pool stays unset
ConnectFail(c) ==
    /\ pc[c] = "connect"
    /\ Raise(c, "ConnectError")
    /\ UNCHANGED <<poolVars, held, pend, result, waited, tableVars,
                   deals_seq, hist>>

\* close() has been called on pool p
PoolClosed(p) == p \in closed

\* __aexit__: "await self.pool.close()"; from then on the pool refuses
\* acquire(), and close() waits for the connections that are checked out
\* (on a Database never connected None.close() raises and nothing changes)
aexit(c) ==
    /\ pc[c] = "idle"
    /\ pool # 0
    /\ closed' = closed \cup {pool}
    /\ pc' = [pc EXCEPT ![c] = "close"]
    /\ stmt' = [stmt EXCEPT ![c] = [kind |-> "close"]]
    /\ from' = [from EXCEPT ![c] = pool]
    /\ outcome' = [outcome EXCEPT ![c] = "running"]
    /\ UNCHANGED <<pool, poolsCreated, max_size, timeout, held, pend, result, waited,
                   prog, tableVars, deals_seq, hist>>

\* close() returns once every connection of the pool has been released;
\* self.pool is left as it is
CloseDone(c) ==
    /\ pc[c] = "close"
    /\ InUse(from[c]) = 0
    /\ pc' = [pc EXCEPT ![c] = "idle"]
    /\ outcome' = [outcome EXCEPT ![c] = "none"]
    /\ stmt' = [stmt EXCEPT ![c] = NoStmt]
    /\ from' = [from EXCEPT ![c] = 0]
    /\ hist' = [hist EXCEPT !.tornDown = TRUE]
    /\ UNCHANGED <<poolVars, held, pend, result, waited, prog, tableVars, deals_seq>>

\* self.pool.acquire(): it is given no timeout, so the caller waits until
\* the pool has a free connection
Acquire(c) ==
    /\ pc[c] = "acquire"
    /\ IF from[c] = 0
       THEN \* None has no attribute acquire
            /\ Raise(c, "AttributeError")
            /\ UNCHANGED <<held, waited>>
       ELSE IF PoolClosed(from[c])
       THEN \* the pool is closing or closed: acquire raises InterfaceError
            /\ Raise(c, "InterfaceError")
            /\ UNCHANGED <<held, waited>>
       ELSE /\ ~Exhausted(from[c])
            /\ held' = [held EXCEPT ![c] = from[c]]
            /\ waited' = [waited EXCEPT ![c] = 0]
            /\ pc' = [pc EXCEPT ![c] = "begin"]
            /\ UNCHANGED <<outcome, stmt, from, prog>>
    /\ UNCHANGED <<poolVars, pend, result, tableVars, deals_seq, hist>>

\* one tick of the clock: callers waiting on an exhausted pool have waited
\* one tick longer (counted up to timeout + 1)
Tick ==
    /\ \E c \in Callers :
          pc[c] = "acquire" /\ Exhausted(from[c]) /\ waited[c] <= timeout
    /\ waited' = [c \in Callers |->
                    IF pc[c] = "acquire" /\ Exhausted(from[c]) /\ waited[c] <= timeout
                    THEN waited[c] + 1 ELSE waited[c]]
    /\ UNCHANGED <<poolVars, pc, stmt, from, held, pend, result, outcome, prog,
                   tableVars, deals_seq, hist>>

\* an exit that swallows the exception: the call ends as if it had succeeded
Leave_suppress(c, how) ==
    /\ pc' = [pc EXCEPT ![c] = "release"]
    /\ outcome' = [outcome EXCEPT ![c] = "ok"]

\* the block is left: the call goes on to release its connection
Leave(c, how) ==
    /\ pc' = [pc EXCEPT ![c] = "release"]
    /\ outcome' = [outcome EXCEPT ![c] = how]

\* "async with conn.transaction()": BEGIN succeeds
Begin(c) ==
    /\ pc[c] = "begin"
    /\ pc' = [pc EXCEPT ![c] = "exec"]
    /\ UNCHANGED <<poolVars, stmt, from, held, pend, result, outcome, waited, prog,
                   tableVars, deals_seq, hist>>

\* BEGIN fails
BeginFail(c) ==
    /\ pc[c] = "begin"
    /\ Leave(c, "TransactionError")
    /\ UNCHANGED <<poolVars, stmt, from, held, pend, result, waited, prog,
                   tableVars, deals_seq, hist>>

\* the statement waits for a conflicting open transaction of another caller
Blocked(c) ==
    \E d \in Callers \ {c} : pc[d] = "commit" /\ LockConflict(stmt[c], stmt[d])

\* conn.fetch / conn.execute: the statement runs against the committed rows;
\* a constraint violation is raised here and rolls the transaction back
Execute(c) ==
    /\ pc[c] = "exec"
    /\ ~Blocked(c)
    /\ IF StatementError(stmt[c])
       THEN /\ Leave(c, "UniqueViolation")
            /\ UNCHANGED <<pend, result, deals_seq>>
       ELSE /\ pc' = [pc EXCEPT ![c] = "commit"]
            /\ pend' = [pend EXCEPT ![c] = Writes(stmt[c])]
            /\ result' = [result EXCEPT ![c] = Fetch(stmt[c])]
            /\ deals_seq' = IF stmt[c].kind = "add_new_deal"
                            THEN deals_seq + 1 ELSE deals_seq
            /\ outcome' = outcome
    /\ UNCHANGED <<poolVars, stmt, from, held, waited, prog, tableVars, hist>>

\* the statement fails for a reason of the datastore or the network
ExecuteFail(c) ==
    /\ pc[c] = "exec"
    /\ Leave(c, "QueryError")
    /\ UNCHANGED <<poolVars, stmt, from, held, pend, result, waited, prog,
                   tableVars, deals_seq, hist>>

\* the history after caller c's transaction commits
Committed(c) ==
    LET s == stmt[c]
    IN  CASE s.kind = "add_new_user" ->
               [hist EXCEPT !.usersCommitted = @ \cup {s.user_id}]
          [] s.kind = "add_button_count" ->
               [hist EXCEPT !.clicks[<<s.user_id, s.button_name>>] = @ + 1]
          [] s.kind = "set_paid_deal" ->
               [hist EXCEPT !.settled = @ \cup {u[2].id : u \in pend[c].upd},
                            !.paidDeals = @ \cup {s.deal_id}]
          [] s.kind = "set_start_message" ->
               [hist EXCEPT !.greeting = s.start_message]
          [] s.kind = "add_payment" ->
               [hist EXCEPT !.notified = Append(@, <<s.user_id, s.payment_data>>)]
          [] OTHER -> hist

\* leaving "async with conn.transaction()" normally: COMMIT makes the writes
\* of the transaction visible
Commit(c) ==
    /\ pc[c] = "commit"
    /\ Leave(c, "ok")
    /\ LET tab == TableOf(stmt[c])
       IN  /\ users' = IF tab = "users" THEN ApplyWrites(users, pend[c]) ELSE users
           /\ buttons_stat' = IF tab = "buttons_stat"
                              THEN ApplyWrites(buttons_stat, pend[c]) ELSE buttons_stat
           /\ products' = IF tab = "products"
                          THEN ApplyWrites(products, pend[c]) ELSE products
           /\ deals' = IF tab = "deals" THEN ApplyWrites(deals, pend[c]) ELSE deals
           /\ admin_messages' = IF tab = "admin_messages"
                                THEN ApplyWrites(admin_messages, pend[c])
                                ELSE admin_messages
           /\ payments' = IF tab = "payments"
                          THEN ApplyWrites(payments, pend[c]) ELSE payments
    /\ hist' = Committed(c)
    /\ UNCHANGED <<poolVars, stmt, from, held, pend, result, waited, prog, deals_seq>>

\* COMMIT fails: the writes of the transaction are dropped
CommitFail(c) ==
    /\ pc[c] = "commit"
    /\ Leave(c, "TransactionError")
    /\ pend' = [pend EXCEPT ![c] = NoPend]
    /\ result' = [result EXCEPT ![c] = <<>>]
    /\ UNCHANGED <<poolVars, stmt, from, held, waited, prog, tableVars, deals_seq, hist>>

\* ------------------------------------------- update_table_products loop
\* the parameters of the INSERT for one product dictionary (the loop body
\* before "await self.update(insert_query, ...)")
ProductRow(product) ==
    [id |-> product.id, name |-> product.name,
     active_from |-> ParseTimestamp(product.dateActiveFrom),
     active_to |-> ParseTimestamp(product.dateActiveTo),
     price |-> ToReal(product.PRICE), currency_id |-> product.CURRENCY_ID,
     description |-> product.detailText]

Refreshing(c) == prog[c].op = "update_table_products"

\* update_table_products(products_list) with a list of lists: the TRUNCATE is
\* issued
update_table_products_with(c, lists) ==
    /\ pc[c] = "idle"
    /\ \E S \in lists :
          prog' = [d \in Callers |->
                     IF d = c
                     THEN [op |-> "update_table_products", list |-> S, k |-> 0,
                           prev |-> products,
                           overlap |-> \E e \in Callers \ {c} : Refreshing(e)]
                     ELSE IF Refreshing(d) THEN [prog[d] EXCEPT !.overlap = TRUE]
                     ELSE prog[d]]
    /\ Enter(c, [kind |-> "truncate_products"])
    /\ UNCHANGED <<poolVars, held, waited, tableVars, deals_seq>>

\* a refresh with a list of well-formed products
update_table_products(c) ==
    /\ hist.refreshIssued < MaxRefresh
    /\ update_table_products_with(c, Snapshots)
    /\ hist' = [hist EXCEPT !.refreshIssued = @ + 1, !.loaded = <<>>]

\* a refresh with a list as the CRM delivers it, malformed products included
update_table_products_feed(c) ==
    /\ hist.refreshIssued < MaxRefresh
    /\ update_table_products_with(c, FeedLists)
    /\ hist' = [hist EXCEPT !.refreshIssued = @ + 1, !.loaded = <<>>]

\* pool.release at the exit of "async with self.pool.acquire()"; the call
\* returns or raises, and update_table_products goes on with its loop: the
\* INSERT of the next product is issued, or the method returns
Release(c) ==
    /\ pc[c] = "release"
    /\ held' = ReleaseConn(held, c, outcome[c])
    /\ waited' = ResetWaits(held[c])
    /\ LET more == outcome[c] = "ok" /\ Refreshing(c) /\ prog[c].k < Len(prog[c].list)
           product == prog[c].list[prog[c].k + 1]
       IN  IF more /\ ~Malformed(product)
           THEN /\ Enter(c, [kind |-> "insert_product", row |-> ProductRow(product)])
                /\ prog' = [prog EXCEPT ![c].k = @ + 1]
                /\ hist' = hist
           ELSE \* the call raises, the loop body raises on the next product, or
                \* the method returns
                /\ pc' = [pc EXCEPT ![c] = "idle"]
                /\ from' = [from EXCEPT ![c] = 0]
                /\ prog' = [prog EXCEPT ![c] = NoProg]
                /\ hist' = IF outcome[c] # "ok"
                           THEN [hist EXCEPT !.failedExit = TRUE]
                           ELSE IF more
                           THEN hist
                           ELSE IF Refreshing(c)
                           THEN [hist EXCEPT !.loaded = <<prog[c].list>>,
                                             !.clean = ~prog[c].overlap]
                           ELSE hist
                /\ stmt' = [stmt EXCEPT ![c] = NoStmt]
                /\ result' = [result EXCEPT ![c] = <<>>]
                /\ outcome' = [outcome EXCEPT ![c] = "none"]
                /\ pend' = [pend EXCEPT ![c] = NoPend]
    /\ UNCHANGED <<poolVars, tableVars, deals_seq>>

\* ------------------------------------------------- single-statement methods
add_new_user(c) ==
    /\ \E u \in Buyers :
          Call(c, [kind |-> "add_new_user", user_id |-> u, username |-> "alice",
                   full_name |-> "Alice A"])
    /\ hist' = hist

is_user_exist(c) ==
    /\ \E u \in UserIds : Call(c, [kind |-> "is_user_exist", user_id |-> u])
    /\ hist' = hist

add_button_count(c) ==
    /\ hist.clicksIssued < MaxClicks
    /\ \E u \in UserIds, b \in ButtonNames :
          Call(c, [kind |-> "add_button_count", user_id |-> u, button_name |-> b])
    /\ hist' = [hist EXCEPT !.clicksIssued = @ + 1]

get_products(c) ==
    /\ Call(c, [kind |-> "get_products"])
    /\ hist' = hist

get_product_by_id(c) ==
    /\ \E p \in {x.id : x \in Catalog} :
          Call(c, [kind |-> "get_product_by_id", product_id |-> p])
    /\ hist' = hist

\* time_now = datetime.now() is read before the INSERT is issued
add_new_deal(c) ==
    /\ hist.dealsIssued < MaxDeals
    /\ \E u \in Buyers, d \in DealIds, p \in ProductIds :
          Call(c, [kind |-> "add_new_deal", user_id |-> u, deal_id |-> d,
                   product_id |-> p, opportunity |-> 15000,
                   create_time |-> hist.dealsIssued + 1])
    /\ hist' = [hist EXCEPT !.dealsIssued = @ + 1]

set_paid_deal(c) ==
    /\ \E d \in PaidIds : Call(c, [kind |-> "set_paid_deal", deal_id |-> d])
    /\ hist' = hist

get_user_deal_by_product_id(c) ==
    /\ \E u \in UserIds, p \in ProductIds :
          Call(c, [kind |-> "get_user_deal_by_product_id", user_id |-> u,
                   product_id |-> p])
    /\ hist' = hist

\* add_payment(user_id, payment_data): the payload is parsed before the INSERT
\* is issued, and a payload that does not parse raises out of the method
add_payment(c) ==
    /\ pc[c] = "idle"
    /\ hist.paymentsIssued < MaxPayments
    /\ \E u \in Buyers, n \in Notifications :
          IF PayloadError(n.invoice_payload) # "none"
          THEN /\ hist' = [hist EXCEPT !.paymentsIssued = @ + 1]
               /\ UNCHANGED <<poolVars, pc, stmt, from, held, pend, result, outcome,
                              waited, prog, tableVars, deals_seq>>
          ELSE /\ Call(c, [kind |-> "add_payment", user_id |-> u,
                           currency |-> n.currency, total_amount |-> n.total_amount,
                           product_id |-> n.invoice_payload[1].val,
                           deal_id |-> n.invoice_payload[2].val,
                           telegram_payment_charge_id |-> n.telegram_payment_charge_id,
                           provider_payment_charge_id |-> n.provider_payment_charge_id,
                           payment_data |-> n])
               /\ hist' = [hist EXCEPT !.paymentsIssued = @ + 1]

create_table_admin_messages(c) ==
    /\ Call(c, [kind |-> "create_table_admin_messages"])
    /\ hist' = hist

set_start_message(c) ==
    /\ \E m \in Greetings :
          Call(c, [kind |-> "set_start_message", start_message |-> m])
    /\ hist' = hist

\* the select of get_start_message; its caller then indexes the rows returned
get_start_message(c) ==
    /\ Call(c, [kind |-> "get_start_message"])
    /\ hist' = hist

\* -------------------------------------------------------- specifications
InitState ==
    /\ pc = [c \in Callers |-> "idle"]
    /\ stmt = [c \in Callers |-> NoStmt]
    /\ from = [c \in Callers |-> 0]
    /\ held = [c \in Callers |-> 0]
    /\ pend = [c \in Callers |-> NoPend]
    /\ result = [c \in Callers |-> <<>>]
    /\ outcome = [c \in Callers |-> "none"]
    /\ waited = [c \in Callers |-> 0]
    /\ prog = [c \in Callers |-> NoProg]
    /\ users = <<>>
    /\ buttons_stat = <<>>
    /\ products = <<>>
    /\ deals = <<>>
    /\ admin_messages = <<>>
    /\ payments = <<>>
    /\ deals_seq = 0
    /\ hist = [usersCommitted |-> {},
               clicks |-> [k \in UserIds \X ButtonNames |-> 0],
               clicksIssued |-> 0, dealsIssued |-> 0, settled |-> {},
               paidDeals |-> {}, failedExit |-> FALSE, greeting |-> "none",
               tornDown |-> FALSE,
               notified |-> <<>>, paymentsIssued |-> 0,
               refreshIssued |-> 0, loaded |-> <<>>, clean |-> FALSE]

\* the steps of a select/update call once it is issued
CallStep(c) ==
    \/ Acquire(c)
    \/ Begin(c)
    \/ BeginFail(c)
    \/ Execute(c)
    \/ ExecuteFail(c)
    \/ Commit(c)
    \/ CommitFail(c)
    \/ Release(c)

\* Database(max_size, timeout): a small pool, so that it can be exhausted
Init ==
    /\ InitState
    /\ pool = 0
    /\ poolsCreated = 0
    /\ closed = {}
    /\ max_size = MaxPoolSize
    /\ timeout = MaxTimeout

Next ==
    \/ \E c \in Callers :
          connect(c) \/ add_new_user(c) \/ is_user_exist(c)
              \/ ConnectDone(c) \/ ConnectFail(c) \/ CallStep(c)
    \/ Tick

Spec == Init /\ [][Next]_vars

\* a Database that is not connected, with a pool large enough for its callers
InitUnconnected ==
    /\ InitState
    /\ pool = 0
    /\ poolsCreated = 0
    /\ closed = {}
    /\ max_size = Cardinality(Clients)
    /\ timeout = MaxTimeout

\* "async with db" blocks (connect on entry, close on exit) and connect,
\* select and update calls on one Database
NextTeardown ==
    \E c \in Clients :
        connect(c) \/ ConnectDone(c) \/ ConnectFail(c) \/ aexit(c) \/ CloseDone(c)
            \/ add_new_user(c) \/ is_user_exist(c) \/ CallStep(c)

SpecTeardown == InitUnconnected /\ [][NextTeardown]_vars

\* "async with Database() as db" has been entered: connect has completed, and
\* the pool is large enough for every caller (max_size = 500)
InitLarge ==
    /\ InitState
    /\ pool = 1
    /\ poolsCreated = 1
    /\ closed = {}
    /\ max_size = Cardinality(Clients)
    /\ timeout = MaxTimeout

NextUsers ==
    \E c \in Clients :
        add_new_user(c) \/ is_user_exist(c) \/ add_button_count(c) \/ CallStep(c)

SpecUsers == InitLarge /\ [][NextUsers]_vars

NextProducts ==
    \E c \in Clients :
        update_table_products(c) \/ get_products(c) \/ get_product_by_id(c)
            \/ CallStep(c)

SpecProducts == InitLarge /\ [][NextProducts]_vars

NextDeals ==
    \E c \in Clients :
        add_new_deal(c) \/ set_paid_deal(c) \/ get_user_deal_by_product_id(c)
            \/ CallStep(c)

SpecDeals == InitLarge /\ [][NextDeals]_vars

NextPayments ==
    \E c \in Clients : add_payment(c) \/ CallStep(c)

SpecPayments == InitLarge /\ [][NextPayments]_vars

\* an earlier update_table_products([pilates]) has completed
InitStocked ==
    /\ pc = [c \in Callers |-> "idle"]
    /\ stmt = [c \in Callers |-> NoStmt]
    /\ from = [c \in Callers |-> 0]
    /\ held = [c \in Callers |-> 0]
    /\ pend = [c \in Callers |-> NoPend]
    /\ result = [c \in Callers |-> <<>>]
    /\ outcome = [c \in Callers |-> "none"]
    /\ waited = [c \in Callers |-> 0]
    /\ prog = [c \in Callers |-> NoProg]
    /\ users = <<>>
    /\ buttons_stat = <<>>
    /\ products = <<ProductRow(CHOOSE x \in Catalog : x.id = 8)>>
    /\ deals = <<>>
    /\ admin_messages = <<>>
    /\ payments = <<>>
    /\ deals_seq = 0
    /\ hist = [usersCommitted |-> {},
               clicks |-> [k \in UserIds \X ButtonNames |-> 0],
               clicksIssued |-> 0, dealsIssued |-> 0, settled |-> {},
               paidDeals |-> {}, failedExit |-> FALSE, greeting |-> "none",
               tornDown |-> FALSE,
               notified |-> <<>>, paymentsIssued |-> 0,
               refreshIssued |-> 0, loaded |-> <<>>, clean |-> FALSE]
    /\ pool = 1
    /\ poolsCreated = 1
    /\ closed = {}
    /\ max_size = Cardinality(Clients)
    /\ timeout = MaxTimeout

\* records arriving from the CRM and the messaging platform: one caller
\* refreshes the products, another records payments
NextRecords ==
    \/ update_table_products_feed(Refresher)
    \/ add_payment(Cashier)
    \/ \E c \in Clients : CallStep(c)

SpecRecords == InitStocked /\ [][NextRecords]_vars

NextAdmin ==
    \E c \in Clients :
        create_table_admin_messages(c) \/ set_start_message(c)
            \/ get_start_message(c) \/ CallStep(c)

SpecAdmin == InitLarge /\ [][NextAdmin]_vars

\* ================================================================ claims

\* ---- C1 (Spec) -----------------------------------------------------------
\* C1: a select or update that is issued once self.pool is set goes straight
\* to acquire() on that pool and never awaits connect; only a step that
\* ends an awaited connect sets self.pool or creates a pool; and no call
\* reaches acquire() on an unset pool (the failure a bad pool state causes).
C1_LaterCallsReusePool ==
    [][\A c \in Callers :
          /\ (pc[c] = "idle" /\ pc'[c] # "idle" /\ stmt'[c].kind # "connect" /\ pool # 0)
                => (pc'[c] = "acquire" /\ from'[c] = pool /\ pool' = pool
                    /\ poolsCreated' = poolsCreated)
          /\ (pc[c] # "connect" /\ pc'[c] # pc[c])
                => (pool' = pool /\ poolsCreated' = poolsCreated)
          /\ pc'[c] = "acquire" => from'[c] # 0]_vars

\* one pool was ever created, an add_new_user has committed on it and a later
\* is_user_exist has read the row through it
C1_Witness ==
    /\ poolsCreated = 1 /\ pool = 1
    /\ users # <<>>
    /\ \E c \in Callers :
          /\ pc[c] = "release" /\ stmt[c].kind = "is_user_exist"
          /\ result[c] # <<>> /\ held[c] = 1

\* ---- C2 (Spec) -----------------------------------------------------------
\* C2: a caller holds a connection only between acquire() and the exit of the
\* "async with" block; in no call, awaiting connect or awaiting acquire it
\* holds none, whichever way its earlier calls ended, so with every caller in
\* no call no connection of any pool is checked out.
C2_ConnectionReleased ==
    /\ \A c \in Callers : pc[c] \in {"idle", "connect", "acquire"} => held[c] = 0
    /\ (\A c \in Callers : pc[c] = "idle") => \A p \in 1..poolsCreated : InUse(p) = 0

\* every caller is in no call, after a call that failed with a connection
\* checked out and after a call that committed
C2_Witness ==
    /\ hist.failedExit
    /\ users # <<>>
    /\ \A c \in Callers : pc[c] = "idle" /\ held[c] = 0

\* ---- C4 (Spec) -----------------------------------------------------------
\* C4: a caller whose acquire() has waited on an exhausted pool for more than
\* timeout ticks is no longer waiting (it has failed with a timeout error).
C4_AcquireTimesOut ==
    \A c \in Callers : pc[c] = "acquire" => waited[c] <= timeout

\* ---- C3 (SpecUsers) ------------------------------------------------------
\* the rows of buttons_stat for one (user_id, button_name) pair
ButtonRows(u, b) ==
    SelectSeq(buttons_stat, LAMBDA r : r.user_id = u /\ r.button_name = b)

\* C3: for every (user_id, button_name) pair, after N add_button_count calls
\* have committed, in any interleaving, there is exactly one row for the pair
\* and its count is N (and no row while N = 0).
C3_NoLostUpdate ==
    \A u \in UserIds, b \in ButtonNames :
        LET n == hist.clicks[<<u, b>>]
            rows == ButtonRows(u, b)
        IN  IF n = 0 THEN rows = <<>>
            ELSE Len(rows) = 1 /\ rows[1].count = n

\* two increments of one pair have committed while a third, issued
\* concurrently, has executed and waits for its commit
C3_Witness ==
    \E u \in UserIds, b \in ButtonNames :
        /\ hist.clicks[<<u, b>>] = 2
        /\ \E c \in Clients :
              /\ pc[c] = "commit" /\ stmt[c].kind = "add_button_count"
              /\ stmt[c].user_id = u /\ stmt[c].button_name = b
        /\ \E c \in Clients : pc[c] = "release" /\ stmt[c].kind = "add_button_count"

\* ---- C9 (SpecUsers) ------------------------------------------------------
\* C9: for every user_id, is_user_exist is true exactly when an add_new_user
\* for that user_id has committed, and an is_user_exist call that returned
\* true did so for a user whose insert had committed.
C9_UserExistsIffCommitted ==
    /\ \A u \in UserIds :
          is_user_exist_result(is_user_exist_rows([kind |-> "is_user_exist",
                                                   user_id |-> u]))
              <=> u \in hist.usersCommitted
    /\ \A c \in Clients :
          (pc[c] \in {"commit", "release"} /\ stmt[c].kind = "is_user_exist"
             /\ is_user_exist_result(result[c]))
              => stmt[c].user_id \in hist.usersCommitted

\* an add_new_user has committed, one is_user_exist call has returned true for
\* that user and another has returned false for a user never added
C9_Witness ==
    /\ hist.usersCommitted # {}
    /\ \E c \in Clients :
          /\ pc[c] = "release" /\ stmt[c].kind = "is_user_exist"
          /\ stmt[c].user_id \in hist.usersCommitted
          /\ is_user_exist_result(result[c])
    /\ \E c \in Clients :
          /\ pc[c] = "release" /\ stmt[c].kind = "is_user_exist"
          /\ stmt[c].user_id \notin hist.usersCommitted
          /\ ~is_user_exist_result(result[c])

\* ---- C10 (SpecUsers) -----------------------------------------------------
\* C10: in every reachable state users has at most one row per user_id and
\* buttons_stat has at most one row per (user_id, button_name) pair.
C10_UniqueRows ==
    /\ \A i, j \in DOMAIN users : users[i].user_id = users[j].user_id => i = j
    /\ \A i, j \in DOMAIN buttons_stat :
          (/\ buttons_stat[i].user_id = buttons_stat[j].user_id
           /\ buttons_stat[i].button_name = buttons_stat[j].button_name) => i = j

\* a second add_new_user for an existing user_id is being rejected, and a
\* pair of buttons_stat has been incremented on conflict
C10_Witness ==
    /\ \E c \in Clients :
          /\ pc[c] = "release" /\ outcome[c] = "UniqueViolation"
          /\ stmt[c].kind = "add_new_user"
          /\ \E i \in DOMAIN users : users[i].user_id = stmt[c].user_id
    /\ \E i \in DOMAIN buttons_stat : buttons_stat[i].count >= 2

\* ---- C7 (SpecDeals) ------------------------------------------------------
\* the step in which caller c's get_user_deal_by_product_id returns its rows
DealQueryReturns(c) ==
    /\ pc[c] = "exec" /\ pc'[c] = "commit"
    /\ stmt[c].kind = "get_user_deal_by_product_id"

\* every returned row is an unpaid deal of the user and product asked for
UnpaidDealsOf(rows, s) ==
    \A i \in DOMAIN rows :
        /\ rows[i].user_id = s.user_id
        /\ rows[i].product_id = s.product_id
        /\ rows[i].paid = FALSE

\* C7 as claimed: get_user_deal_by_product_id returns only unpaid deal rows of
\* that user and product, and once set_paid_deal(d) has committed no row with
\* deal_id d appears in any later result.
C7_PaidDealIdNeverReturned ==
    [][\A c \in Clients :
          DealQueryReturns(c) =>
              /\ UnpaidDealsOf(result'[c], stmt[c])
              /\ \A i \in DOMAIN result'[c] :
                    result'[c][i].deal_id \notin hist.paidDeals]_vars

\* C7 as amended: get_user_deal_by_product_id returns only unpaid deal rows of
\* that user and product, and once set_paid_deal(d) has committed no deal row
\* with deal_id d that existed when that statement ran appears in any later
\* result.
C7_SettledRowsNeverReturned ==
    [][\A c \in Clients :
          DealQueryReturns(c) =>
              /\ UnpaidDealsOf(result'[c], stmt[c])
              /\ \A i \in DOMAIN result'[c] :
                    result'[c][i].id \notin hist.settled]_vars

\* a deal was added and set_paid_deal on it has committed; the query for its
\* user and product has returned the empty result
C7_Witness ==
    /\ \E i \in DOMAIN deals : deals[i].paid /\ deals[i].id \in hist.settled
    /\ \E c \in Clients :
          /\ pc[c] = "release" /\ outcome[c] = "ok"
          /\ stmt[c].kind = "get_user_deal_by_product_id"
          /\ \E i \in DOMAIN deals :
                /\ deals[i].user_id = stmt[c].user_id
                /\ deals[i].product_id = stmt[c].product_id
          /\ \A i \in DOMAIN deals : deals[i].paid
          /\ result[c] = <<>>

\* ---- C8 (SpecDeals) ------------------------------------------------------
\* C8: the commit of set_paid_deal(d) adds no row and changes no column but
\* paid; the rows of deal_id d it saw are paid afterwards; applied to a table
\* whose rows of deal_id d are already paid it leaves the table as it was
\* (twice is the same as once); and the statement raises no error of its own.
C8_SetPaidIdempotent ==
    [][\A c \in Clients :
          /\ (pc[c] = "commit" /\ pc'[c] = "release" /\ outcome'[c] = "ok"
                /\ stmt[c].kind = "set_paid_deal") =>
                /\ Len(deals') = Len(deals)
                /\ \A i \in DOMAIN deals :
                      /\ [deals'[i] EXCEPT !.paid = FALSE]
                            = [deals[i] EXCEPT !.paid = FALSE]
                      /\ deals[i].paid => deals'[i].paid
                      /\ (\E u \in pend[c].upd : u[1] = i) => deals'[i].paid
                      /\ deals[i].deal_id # stmt[c].deal_id
                            => deals'[i].paid = deals[i].paid
                /\ (\A i \in DOMAIN deals :
                       deals[i].deal_id = stmt[c].deal_id => deals[i].paid)
                      => deals' = deals
          /\ (pc[c] = "exec" /\ stmt[c].kind = "set_paid_deal"
                /\ pc'[c] = "release") => outcome'[c] = "QueryError"]_vars

\* two set_paid_deal calls have both committed their update of the same deal
\* row, which is paid and is the only row
C8_Witness ==
    /\ \A c \in Clients :
          /\ pc[c] = "release" /\ outcome[c] = "ok"
          /\ stmt[c].kind = "set_paid_deal"
          /\ \E u \in pend[c].upd : u[1] = 1
    /\ Len(deals) = 1 /\ deals[1].paid

\* ---- C5 (SpecProducts) ---------------------------------------------------
\* the rows update_table_products inserts for the list S
SnapshotRows(S) == [i \in DOMAIN S |-> ProductRow(S[i])]

DistinctIds(S) == \A i, j \in DOMAIN S : S[i].id = S[j].id => i = j

\* the rows of table t that the select s asks for
Asked(t, s) ==
    IF s.kind = "get_product_by_id"
    THEN SelectSeq(t, LAMBDA r : r.id = s.product_id)
    ELSE t

\* C5: a get_products or get_product_by_id that runs while one
\* update_table_products refresh is in progress returns the complete previous
\* content, nothing, or the complete new snapshot, never a part of the new one.
C5_NoPartialRefreshSeen ==
    [][\A c, d \in Clients :
          (/\ pc[c] = "exec" /\ pc'[c] = "commit"
           /\ stmt[c].kind \in {"get_products", "get_product_by_id"}
           /\ Refreshing(d) /\ ~prog[d].overlap /\ DistinctIds(prog[d].list)) =>
              result'[c] \in {Asked(prog[d].prev, stmt[c]), <<>>,
                              Asked(SnapshotRows(prog[d].list), stmt[c])}]_vars

\* ---- C6 (SpecProducts) ---------------------------------------------------
\* a refresh has completed, no other refresh ran during it and none runs now
RefreshCompleted ==
    /\ hist.loaded # <<>> /\ hist.clean
    /\ \A c \in Clients : ~Refreshing(c)

\* after a completed refresh with list S the table holds one row per product
\* of S, with the id, name and currency of S, and no row of another id
ProductsMirrorSnapshot ==
    RefreshCompleted =>
        LET S == hist.loaded[1]
        IN  /\ Len(products) = Len(S)
            /\ \A p \in {x.id : x \in Catalog} :
                  LET rows == get_product_by_id_rows([kind |-> "get_product_by_id",
                                                      product_id |-> p])
                  IN  IF \E i \in DOMAIN S : S[i].id = p
                      THEN /\ Len(rows) = 1
                           /\ \E i \in DOMAIN S :
                                 /\ S[i].id = rows[1].id
                                 /\ S[i].name = rows[1].name
                                 /\ S[i].CURRENCY_ID = rows[1].currency_id
                      ELSE rows = <<>>

\* after a completed refresh with list S every row's price is the PRICE
\* given in S for its id
PricesRoundTrip ==
    RefreshCompleted =>
        \A i \in DOMAIN products :
            \E j \in DOMAIN hist.loaded[1] :
                /\ hist.loaded[1][j].id = products[i].id
                /\ RealEqualsDecimal(products[i].price, hist.loaded[1][j].PRICE)

\* C6: after update_table_products(S) completes with no other refresh running
\* the table holds exactly the products of S: get_product_by_id returns the
\* id, name, price and currency given in S, and no row for another id.
C6_SnapshotRoundTrip == ProductsMirrorSnapshot /\ PricesRoundTrip

\* ---- C11 (SpecDeals) -----------------------------------------------------
\* C11: in every step an existing deal row keeps its place and its user_id,
\* deal_id, product_id, opportunity and create_time, a paid row stays paid, no
\* row is deleted, and a row that the step adds starts with paid false.
C11_DealRowsOnlyGetPaid ==
    [][/\ Len(deals') >= Len(deals)
       /\ \A i \in DOMAIN deals :
             /\ [deals'[i] EXCEPT !.paid = FALSE] = [deals[i] EXCEPT !.paid = FALSE]
             /\ deals[i].paid => deals'[i].paid
       /\ \A i \in DOMAIN deals' \ DOMAIN deals : deals'[i].paid = FALSE]_vars

\* a deal was added and paid, and a second deal with the same deal_id was
\* added afterwards and is unpaid
C11_Witness ==
    /\ Len(deals) = 2
    /\ deals[1].paid /\ deals[1].id \in hist.settled
    /\ ~deals[2].paid /\ deals[2].deal_id = deals[1].deal_id
    /\ deals[2].create_time > deals[1].create_time

\* ---- C15 (SpecDeals) -----------------------------------------------------
\* the unpaid deal rows of the user and product that select s asks for
UnpaidRowsFor(s) ==
    {i \in DOMAIN deals : /\ deals[i].user_id = s.user_id
                          /\ deals[i].product_id = s.product_id
                          /\ ~deals[i].paid}

\* C15: get_user_deal_by_product_id(user, product) returns nothing when the
\* user has no unpaid deal for the product, and otherwise the single unpaid
\* deal with the latest create_time, not the older ones.
C15_OnlyMostRecentUnpaid ==
    [][\A c \in Clients :
          DealQueryReturns(c) =>
              LET unpaid == UnpaidRowsFor(stmt[c])
              IN  IF unpaid = {} THEN result'[c] = <<>>
                  ELSE /\ Len(result'[c]) = 1
                       /\ \E i \in unpaid :
                             /\ result'[c][1] = deals[i]
                             /\ \A j \in unpaid :
                                   deals[j].create_time <= deals[i].create_time]_vars

\* ---- C13 (SpecUsers) -----------------------------------------------------
\* C13: a statement that fails (BEGIN, the statement itself, a unique-key
\* violation such as add_new_user for an existing user_id, or COMMIT) ends its
\* call as a failure, which reaches the caller once the connection is
\* released: the statement is executed at most once per call, entered only
\* from BEGIN, and never again after a failure; the rows of every table change
\* only in the step that commits a successful transaction, so a failing call
\* leaves them as they were.
C13_FailurePropagates ==
    [][\A c \in Clients :
          /\ (pc[c] \in {"begin", "exec"} /\ pc'[c] = "release")
                => outcome'[c] \notin {"ok", "running", "none"}
          /\ (/\ pc[c] = "exec" /\ pc'[c] # "exec" /\ stmt[c].kind = "add_new_user"
              /\ \E i \in DOMAIN users : users[i].user_id = stmt[c].user_id)
                => (pc'[c] = "release"
                    /\ outcome'[c] \in {"UniqueViolation", "QueryError"})
          /\ (pc[c] = "release" /\ outcome[c] # "ok" /\ pc'[c] # "release")
                => (pc'[c] = "idle" /\ tableVars' = tableVars)
          /\ (pc'[c] = "exec" /\ pc[c] # "exec") => pc[c] = "begin"
          /\ (pc'[c] = "begin" /\ pc[c] # "begin") => pc[c] = "acquire"
          /\ (pc'[c] = "acquire" /\ pc[c] = "release") => outcome[c] = "ok"
          /\ (pc'[c] # pc[c] /\ tableVars' # tableVars)
                => (pc[c] = "commit" /\ outcome'[c] = "ok")]_vars

\* an add_new_user for the user_id of the one committed row has been rejected
\* as a unique violation and is releasing its connection, after another call
\* had failed and returned; users still holds that one row
C13_Witness ==
    /\ hist.failedExit
    /\ Len(users) = 1
    /\ \E c \in Clients :
          /\ pc[c] = "release" /\ outcome[c] = "UniqueViolation"
          /\ stmt[c].kind = "add_new_user" /\ stmt[c].user_id = users[1].user_id
          /\ \A d \in Clients \ {c} : pc[d] = "idle"

\* ---- C12 (SpecAdmin) -----------------------------------------------------
\* C12: once a set_start_message has committed on the table that
\* create_table_admin_messages created, admin_messages has exactly one row and
\* get_start_message returns the text of the most recent set_start_message.
C12_SingleGreetingRow ==
    hist.greeting # "none" =>
        /\ Len(admin_messages) = 1
        /\ get_start_message_result(get_start_message_rows([kind |-> "get_start_message"]))
              = hist.greeting

\* ---- C16 (SpecPayments) --------------------------------------------------
\* the payments row of notification n of user u
PaymentRow(u, n) ==
    [user_id |-> u, currency |-> n.currency, total_amount |-> n.total_amount,
     product_id |-> n.invoice_payload[1].val, deal_id |-> n.invoice_payload[2].val,
     telegram_payment_charge_id |-> n.telegram_payment_charge_id,
     provider_payment_charge_id |-> n.provider_payment_charge_id]

\* C16: payments has exactly one row per add_payment that committed, in the
\* order of the commits, carrying the user, currency, amount, the product_id
\* and deal_id of the "<product_id>:<deal_id>" payload and both charge
\* identifiers; and no step changes or removes a row payments already has.
C16_OnePaymentRowPerNotification ==
    [][/\ Len(payments') >= Len(payments)
       /\ \A i \in DOMAIN payments : payments'[i] = payments[i]
       /\ Len(payments') = Len(hist'.notified)
       /\ \A i \in DOMAIN payments' :
             payments'[i] = PaymentRow(hist'.notified[i][1], hist'.notified[i][2])]_vars

\* two notifications with different payloads have been recorded, one row each,
\* and both callers are back in no call
C16_Witness ==
    /\ Len(payments) = 2 /\ Len(hist.notified) = 2
    /\ payments[1].product_id = 7 /\ payments[1].deal_id = 900
    /\ payments[2].product_id = 8 /\ payments[2].deal_id = 901
    /\ \A c \in Clients : pc[c] = "idle"

\* ---- C14 (SpecRecords) ---------------------------------------------------
\* the step in which add_payment raises on its payload
MalformedPaymentStep ==
    hist'.paymentsIssued # hist.paymentsIssued /\ pc' = pc

\* the step in which the loop of caller c's update_table_products raises on
\* the product after the k it has inserted
MalformedProductStep(c) ==
    /\ Refreshing(c) /\ pc[c] = "release" /\ outcome[c] = "ok" /\ pc'[c] = "idle"
    /\ prog[c].k < Len(prog[c].list)

\* the error of a malformed record is raised while the caller holds no
\* connection, changes no other caller's connection and writes no row
ReleaseDisciplineKept ==
    /\ MalformedPaymentStep =>
          (held' = held /\ held[Cashier] = 0 /\ tableVars' = tableVars)
    /\ \A c \in Clients :
          MalformedProductStep(c) =>
              /\ held'[c] = 0
              /\ \A d \in Callers \ {c} : held'[d] = held[d]
              /\ tableVars' = tableVars

\* no row of products or payments comes from a malformed record
NoRowForMalformed ==
    /\ \A i \in DOMAIN products' :
          \A x \in Feed : Malformed(x) => products'[i].id # x.id
    /\ Len(payments') = Len(hist'.notified)

\* the well-formed products of the list are in the table when the refresh
\* ends on a malformed one
OnlyThatRecordFails ==
    \A c \in Clients :
        (MalformedProductStep(c) /\ DistinctIds(prog[c].list)) =>
            \A i \in DOMAIN prog[c].list :
                ~Malformed(prog[c].list[i]) =>
                    \E j \in DOMAIN products' : products'[j].id = prog[c].list[i].id

\* C14: a malformed record (a payload of add_payment without ':' or with a
\* part that is not a number, a product of update_table_products whose
\* timestamp or price does not parse) fails only the processing of that
\* record: the error is raised while the caller holds no connection, no row is
\* written for the record, the checked-out connections are unchanged, and the
\* other records of the call are processed.
C14_MalformedRecordFailsAlone ==
    [][ReleaseDisciplineKept /\ NoRowForMalformed /\ OnlyThatRecordFails]_vars

\* the release discipline and the absence of rows for malformed records alone
C14_DisciplineOnly == [][ReleaseDisciplineKept /\ NoRowForMalformed]_vars

\* ---- C17 (SpecRecords) ---------------------------------------------------
\* the rows of the first m products of list S
RowsOf(S, m) == [i \in 1..m |-> ProductRow(S[i])]

\* the INSERTs of caller c's refresh that have committed
InsertsDone(c) ==
    IF prog[c].k = 0 THEN 0
    ELSE IF pc[c] = "release" /\ outcome[c] = "ok" THEN prog[c].k
    ELSE prog[c].k - 1

\* the TRUNCATE of caller c's refresh has committed
TruncateDone(c) ==
    prog[c].k >= 1 \/ (pc[c] = "release" /\ outcome[c] = "ok")

\* while a refresh with list S runs alone, the table holds its content from
\* before the refresh until the TRUNCATE commits and then exactly the rows of
\* the products of S whose INSERT has committed
PartialRefresh ==
    \A c \in Clients :
        (Refreshing(c) /\ ~prog[c].overlap) =>
            IF TruncateDone(c)
            THEN products = RowsOf(prog[c].list, InsertsDone(c))
            ELSE products = prog[c].prev

\* C17: the TRUNCATE and every INSERT of update_table_products commit on their
\* own, and when the refresh fails at the k-th product of S (the product is
\* malformed, or its INSERT fails) the method ends there: products keeps
\* exactly the rows of the first k-1 products of S, with no row of the content
\* before the refresh, and no later product of S is inserted.
C17_FailedRefreshLeavesPrefix ==
    [][/\ PartialRefresh'
       /\ \A c \in Clients :
             (/\ Refreshing(c) /\ ~prog[c].overlap /\ pc[c] = "release"
              /\ pc'[c] # "release"
              /\ \/ MalformedProductStep(c)
                 \/ outcome[c] # "ok" /\ prog[c].k >= 1) =>
                 /\ pc'[c] = "idle" /\ ~Refreshing(c)'
                 /\ products' = RowsOf(prog[c].list, InsertsDone(c))
                 /\ Len(products') = IF outcome[c] = "ok" THEN prog[c].k
                                      ELSE prog[c].k - 1]_vars

\* the refresh of a table that held a product fails at the INSERT of its
\* second product: the table holds the row of the first product only
C17_Witness ==
    /\ Refreshing(Refresher) /\ prog[Refresher].k = 2
    /\ pc[Refresher] = "release" /\ outcome[Refresher] # "ok"
    /\ prog[Refresher].prev # <<>>
    /\ products = <<ProductRow(prog[Refresher].list[1])>>
    /\ \A i \in DOMAIN prog[Refresher].prev : prog[Refresher].prev[i] # products[1]

\* ---- C19 (Spec) ----------------------------------------------------------
\* C19: in any interleaving of connect, select and update calls at most one
\* pool is ever created for the Database, and once self.pool is set it is
\* never assigned another pool.
C19_PoolCreatedOnce ==
    [][poolsCreated' <= 1 /\ (pool # 0 => pool' = pool)]_vars

\* ---- C18 (Spec) ----------------------------------------------------------
\* a caller holds a connection only inside the transaction of one statement,
\* and no pool has more than max_size connections checked out
OneConnectionPerStatement ==
    /\ \A c \in Callers : held[c] # 0 <=> pc[c] \in {"begin", "exec", "commit", "release"}
    /\ \A p \in 1..poolsCreated : InUse(p) <= max_size

\* C18: a caller holds a connection only from acquire() to the release that
\* ends the same call, so none between two calls or two statements of
\* update_table_products and never two at once, and the connections checked
\* out of the Database never number more than max_size.
C18_HoldsWithinMaxSize ==
    /\ OneConnectionPerStatement
    /\ Cardinality({c \in Callers : held[c] # 0}) <= max_size

\* ---- C20 (SpecTeardown) --------------------------------------------------
\* caller c issues a select or update
IssuesStatement(c) ==
    /\ pc[c] = "idle" /\ pc'[c] # "idle"
    /\ stmt'[c].kind \notin {"connect", "close"}

\* self.pool is never reset to None, a select or update awaits connect only
\* on a Database on which no pool was ever created, and no acquire() on a
\* pool that close() was called on hands out a connection
LazyConnectOnlyOnce ==
    /\ pool # 0 => pool' # 0
    /\ \A c \in Clients :
          /\ (IssuesStatement(c) /\ pc'[c] = "connect")
                => (pool = 0 /\ poolsCreated = 0 /\ closed = {})
          /\ (pc[c] = "acquire" /\ pc'[c] = "begin") => ~PoolClosed(from[c])

\* a select or update issued after an __aexit__ has returned goes to acquire()
\* on a closed pool, where it fails
FailsAfterTeardown ==
    \A c \in Clients :
        (IssuesStatement(c) /\ hist.tornDown) =>
            (pc'[c] = "acquire" /\ PoolClosed(from'[c]))

\* C20: once __aexit__ has closed the pool self.pool stays set, so a select or
\* update issued afterwards never awaits connect and never executes its
\* statement: its acquire() is on the closed pool and fails; a select or
\* update awaits connect only on a Database that was never connected.
C20_TeardownIsTerminal ==
    [][LazyConnectOnlyOnce /\ FailsAfterTeardown]_vars

\* the part of C20 that is about lazy initialisation alone
C20_LazyOnly == [][LazyConnectOnlyOnce]_vars

====
